---- MODULE Spec2Model ----
(***************************************************************************)
(* Model of the CUDA parallel reduction of Kokkos_CudaDeviceReduce.hpp:    *)
(* the host function cuda_parallel_reduce (launch planning, scratch        *)
(* allocation, the one or two kernel launches on one stream) and the two   *)
(* kernels run_reduce_functor_on_cuda and run_reduce_operator_on_cuda with *)
(* the shared-memory tree combiner reduce_shared_on_cuda.                  *)
(*                                                                         *)
(* The device executes the kernel at the head of the stream.  A kernel is  *)
(* a grid of blocks; the lanes of one warp (WarpSize consecutive lanes of  *)
(* a block) run in lockstep, so a warp is the unit that takes a step;      *)
(* warps are interleaved arbitrarily and wait for each other only at       *)
(* __syncthreads.  The blocks of a grid share no memory but the scratch     *)
(* buffer; the device runs them one after the other in any order.          *)
(*                                                                         *)
(* A value is kept as the bag of work indices whose contributions were     *)
(* combined into it: FunctorType::init gives the empty bag, operator()     *)
(* adds its index, join is the bag sum.  Value(f, v) is the integer that   *)
(* functor f holds for that bag.  Shared memory and the scratch buffer are *)
(* arrays of words; each word of a value holds the bag of the value, and   *)
(* a slot whose words belong to different values holds no value.  Memory   *)
(* that was never written holds the Poison bag.                            *)
(*                                                                         *)
(* Spec runs the reduction of a 4-byte integer (one word per value);       *)
(* WideSpec runs it for value types of several words, for which the block  *)
(* finalize has its barrier; LayoutSpec lays out the storage of a value    *)
(* type of any size.                                                       *)
(*                                                                         *)
(* SpmdSpec is the model of Thyra::SpmdVectorBase::applyOpImplWithComm     *)
(* (Thyra_SpmdVectorBase_def.hpp) with the views it acquires and releases  *)
(* and its re-entrancy flag, for one object in one process.                *)
(***************************************************************************)
EXTENDS Integers, Sequences, FiniteSets, Bags, TLC

\* ---- bounds of the model ----
MaxThreads == 6      \* largest CudaDevice::reduction_thread_max() tried
MaxBlocks == 2       \* largest CudaDevice::block_count_max() tried
MaxWork == 7         \* largest work_count tried besides the thresholds
WarpSize == 2        \* lanes per hardware sub-group (warpSize, scaled down)
MaxSizeof == 300     \* largest sizeof(ValueType) tried for the storage layout
MaxDim == 2          \* largest globalDim_ of a vector tried
MaxVecs == 1         \* largest num_vecs and num_targ_vecs tried
MaxCalls == 2        \* calls of applyOpImplWithComm on one object

\* ---- program constants ----
SizeofWord == 4           \* sizeof(CudaWordType)
SharedMemoryBanks == 32
SizeofInt == 4            \* sizeof(value_type) of the integer functors

\* ---- storage layout (CudaWordCount, CudaSharedMemoryReduceType) ----
CudaWordCount(bytes) == (bytes + SizeofWord - 1) \div SizeofWord

StorageWordsEven(bytes) ==
  CudaWordCount(bytes) + (IF CudaWordCount(bytes) % 2 # 0 THEN 0 ELSE 1)

StorageWords(bytes) ==
  CudaWordCount(bytes) + (IF CudaWordCount(bytes) % SharedMemoryBanks # 0 THEN 0 ELSE 1)

\* ---- values: bags of work indices ----
Identity == EmptyBag

Poison == SetToBag({-1})

Indeterminate(v) == -1 \in DOMAIN v

\* FunctorType::join( dst , src )
Join(a, b) == a (+) b

\* functor( iwork , value )
Apply(i, a) == a (+) SetToBag({i})

\* ---- the sample functors on integers ----
Functors == {"count", "sum", "prod", "min", "max"}

GarbageVals == {0, 5}     \* what a read of an indeterminate integer may give

Contribution(f, i) == CASE f = "count" -> 1
                        [] f = "prod" -> (IF i % 3 = 0 THEN 2 ELSE 1)
                        [] OTHER -> ((2 * i) % 3) + 1

FunctorInit(f) == CASE f = "count" -> 0
                    [] f = "sum" -> 0
                    [] f = "prod" -> 1
                    [] f = "min" -> 2147483647
                    [] f = "max" -> -2147483647

FunctorJoin(f, a, b) == CASE f = "count" -> a + b
                          [] f = "sum" -> a + b
                          [] f = "prod" -> a * b
                          [] f = "min" -> IF b < a THEN b ELSE a
                          [] f = "max" -> IF b > a THEN b ELSE a

RECURSIVE Times(_, _, _, _)
Times(f, i, n, a) == IF n = 0 THEN a ELSE Times(f, i, n - 1, FunctorJoin(f, a, Contribution(f, i)))

RECURSIVE Fold(_, _, _)
Fold(f, v, S) ==
  IF S = {} THEN FunctorInit(f)
  ELSE LET i == CHOOSE x \in S : \A y \in S : x >= y
       IN Times(f, i, v[i], Fold(f, v, S \ {i}))

\* the integer functor f holds for bag v; g is what an indeterminate one shows
Value(f, v, g) == IF Indeterminate(v) THEN g ELSE Fold(f, v, DOMAIN v)

\* the sequential fold of the contributions of 0 .. n-1
SeqFold(f, n) == Fold(f, SetToBag(0 .. (n - 1)), 0 .. (n - 1))

\* ---- geometry of a launch ----
WarpCount(bdim) == (bdim + WarpSize - 1) \div WarpSize

Warps(bdim) == 0 .. (WarpCount(bdim) - 1)

LanesOf(w, bdim) == {l \in 0 .. (bdim - 1) : l \div WarpSize = w}

WorkStrideBlockOnly(bdim, gdim) == bdim

WorkStride(bdim, gdim) == bdim * gdim

FirstWork(l, b, bdim) == l + bdim * b

VARIABLES
  work_count, max_thread_count, block_count_max,           \* argument and device limits
  pc, thread_count, block_count,                           \* cuda_parallel_reduce
  scratch, block_value, allocCount, deallocCount,          \* global scratch buffer
  launches,                                                \* result of each launch so far
  stream, kern,                                            \* queued and running kernel
  wpc, wj, wk, shared,                                     \* per warp / per lane state
  visited, finalizeCalls, delivered, garbage, finalizeBy,  \* what the callbacks saw
  bufWrites,                                               \* writes to the scratch buffer
  value_size, storage_words,                               \* storage layout instance
  debug, in_applyOpImpl_, globalDim_, localOffset_, localSubDim_,   \* a SpmdVectorBase object and its build
  vecPart, num_vecs, num_targ_vecs,                        \* the argument vectors of applyOpImplWithComm
  comm_in, apc, locallyReplicated, overlap, local_rng,     \* a call of applyOpImplWithComm
  sub_vecs, sub_targ_vecs, applied, callCount, lastExit, reportedRecursive

kokkosVars == << work_count, max_thread_count, block_count_max, pc, thread_count,
                 block_count, scratch, block_value, allocCount, deallocCount, launches,
                 stream, kern, wpc, wj, wk, shared, visited, finalizeCalls, delivered,
                 garbage, finalizeBy, bufWrites, value_size, storage_words >>

objectVars == << debug, in_applyOpImpl_, globalDim_, localOffset_, localSubDim_ >>
argVars == << vecPart, num_vecs, num_targ_vecs >>
callVars == << comm_in, apc, locallyReplicated, overlap, local_rng, sub_vecs,
              sub_targ_vecs, applied, callCount, lastExit, reportedRecursive >>
spmdVars == << objectVars, argVars, callVars >>

vars == << kokkosVars, spmdVars >>

inputVars == << work_count, max_thread_count, block_count_max, value_size >>
hostVars == << pc, thread_count, block_count >>
scratchVars == << scratch, allocCount, deallocCount, bufWrites >>
warpVars == << wpc, wj, wk, shared >>
sinkVars == << finalizeCalls, delivered, garbage, finalizeBy >>

\* CudaSharedMemoryReduceType< value_type >: the words of a value and of its storage
WordCount == CudaWordCount(value_size)

SlotWords == StorageWords(value_size)

NoKernel == [kind |-> "none", grid |-> 0, block |-> 0, fin |-> "none"]

Empty == [x \in {} |-> 0]

\* work counts tried: all small ones and the thresholds around the
\* single-block / multi-block boundary
Thresholds(mtc, bcm) == {0, 1, mtc - 1, mtc, mtc + 1, mtc * bcm * 3}

WorkCounts(mtc, bcm) == (0 .. MaxWork) \cup Thresholds(mtc, bcm)

IdleDevice ==
  /\ stream = << >>
  /\ kern = NoKernel
  /\ wpc = Empty
  /\ wj = Empty
  /\ wk = Empty
  /\ shared = Empty

\* the reduction is not in use (the specification of SpmdVectorBase)
KokkosIdle ==
  /\ work_count = 0
  /\ max_thread_count = 1
  /\ block_count_max = 1
  /\ value_size = SizeofInt
  /\ storage_words = 0
  /\ pc = "none"
  /\ thread_count = 0
  /\ block_count = 0
  /\ scratch = "none"
  /\ block_value = Empty
  /\ allocCount = 0
  /\ deallocCount = 0
  /\ launches = << >>
  /\ IdleDevice
  /\ visited = EmptyBag
  /\ finalizeCalls = 0
  /\ delivered = Poison
  /\ garbage = 0
  /\ finalizeBy = << >>
  /\ bufWrites = EmptyBag

\* ---- Thyra::SpmdVectorBase: values of its state ----

\* Range1D( lbound, ubound ) and Range1D::Invalid
Range1D(lb, ub) == [lbound |-> lb, ubound |-> ub]

Range1DInvalid == [lbound |-> 0, ubound |-> 0 - 2]

RangeSize(rng) == rng.ubound - rng.lbound + 1

\* RTOpPack::ConstSubVectorView / SubVectorView: a default-constructed view
\* and sub_vec->initialize( globalOffset , subDim , values , stride )
NullView == [st |-> "null", via |-> "none", globalOffset |-> 0, subDim |-> 0,
             acquired |-> 0, released |-> 0, freedVia |-> "none"]

NoOverlap == [first_local_ele_off |-> 0 - 1, local_sub_dim |-> 0, global_off |-> 0]

\* the local parts a process can hold of a vector of gd elements
LocalParts(gd) == {<< lo, n >> \in (0 .. gd) \X (0 .. gd) : lo + n <= gd}

\* no SpmdVectorBase object is in use (the specifications of the reduction)
SpmdIdle ==
  /\ debug = FALSE
  /\ in_applyOpImpl_ = FALSE
  /\ globalDim_ = 0
  /\ localOffset_ = 0 - 1
  /\ localSubDim_ = 0
  /\ vecPart = << 0 - 1, 0 >>
  /\ num_vecs = 0
  /\ num_targ_vecs = 0
  /\ comm_in = "null"
  /\ apc = "none"
  /\ locallyReplicated = FALSE
  /\ overlap = NoOverlap
  /\ local_rng = Range1DInvalid
  /\ sub_vecs = << >>
  /\ sub_targ_vecs = << >>
  /\ applied = << >>
  /\ callCount = 0
  /\ lastExit = "none"
  /\ reportedRecursive = FALSE

Init ==
  /\ max_thread_count \in 1 .. MaxThreads
  /\ block_count_max \in 1 .. MaxBlocks
  /\ work_count \in WorkCounts(max_thread_count, block_count_max)
  /\ pc = "call"
  /\ thread_count = 0
  /\ block_count = 0
  /\ scratch = "none"
  /\ block_value = Empty
  /\ allocCount = 0
  /\ deallocCount = 0
  /\ launches = << >>
  /\ IdleDevice
  /\ visited = EmptyBag
  /\ finalizeCalls = 0
  /\ delivered = Poison
  /\ garbage = 0
  /\ finalizeBy = << >>
  /\ bufWrites = EmptyBag
  /\ SpmdIdle
  /\ value_size = SizeofInt
  /\ storage_words = StorageWords(SizeofInt)

\* ---- cuda_parallel_reduce: the host side ----

\* while ( work_count <= ( thread_count >> 1 ) )
ShrinkThreadCondNoHalf(wc, tc) == wc <= tc

ShrinkThreadCondStrict(wc, tc) == wc < (tc \div 2)

ShrinkThreadCondNever(wc, tc) == FALSE

ShrinkThreadCond(wc, tc) == wc <= (tc \div 2)

\* while ( work_count <= max_thread_count * ( block_count >> 1 ) )
ShrinkBlockCond(wc, mtc, bc) == wc <= mtc * (bc \div 2)

\* block_count = block_count_max() ; if ( max_thread_count < block_count ) ...
InitialBlockCountUnbounded(mtc, bcm) == bcm

InitialBlockCount(mtc, bcm) == IF mtc < bcm THEN mtc ELSE bcm

\* CudaDevice::allocate_memory: a failed allocation is fatal and is
\* propagated to the caller, a successful one returns unwritten memory
AllocateMemory(ok, count) ==
  IF ok THEN [status |-> "ok", mem |-> [i \in 0 .. (count * SlotWords - 1) |-> Poison]]
        ELSE [status |-> "throw", mem |-> Empty]

\* CudaDevice::deallocate_memory returns once the device has finished the
\* work queued before it
DeviceIdle == stream = << >> /\ kern = NoKernel

\* the statement after the allocation: nothing catches the exception
AfterAllocateIgnoreFailure(status) == "launch1"

AfterAllocateFinalizeFirst(status) == IF status = "throw" THEN "aborted" ELSE "launch2"

AfterAllocate(status) == IF status = "throw" THEN "aborted" ELSE "launch1"

\* the statement after the first launch: the second launch
AfterPhase1FreeFirst(ok) == "dealloc"

AfterPhase1(ok) == "launch2"

\* the statement after the second launch: the launch returns no status to
\* the host code, which goes on to deallocate_memory
AfterPhase2ReturnOnError(ok) == IF ok THEN "dealloc" ELSE "done"

AfterPhase2(ok) == "dealloc"

Call ==
  /\ pc = "call"
  /\ IF work_count < max_thread_count
       THEN /\ thread_count' = max_thread_count
            /\ pc' = "shrinkT"
            /\ UNCHANGED block_count
       ELSE /\ block_count' = InitialBlockCount(max_thread_count, block_count_max)
            /\ pc' = "shrinkB"
            /\ UNCHANGED thread_count
  /\ UNCHANGED << inputVars, scratchVars, block_value, launches, stream, kern,
                  warpVars, visited, sinkVars, storage_words, spmdVars >>

ShrinkThreads ==
  /\ pc = "shrinkT"
  /\ ShrinkThreadCond(work_count, thread_count)
  /\ thread_count' = thread_count \div 2
  /\ UNCHANGED << inputVars, pc, block_count, scratchVars, block_value, launches,
                  stream, kern, warpVars, visited, sinkVars, storage_words, spmdVars >>

\* <<< 1, thread_count >>> run_reduce_functor_on_cuda with the serial finalize
LaunchSingle ==
  /\ pc = "shrinkT"
  /\ ~ ShrinkThreadCond(work_count, thread_count)
  /\ \E ok \in BOOLEAN :
       /\ IF ok
           THEN stream' = Append(stream, [kind |-> "functor", grid |-> 1,
                                           block |-> thread_count, fin |-> "functor"])
           ELSE UNCHANGED stream
       /\ launches' = Append(launches, ok)
  /\ pc' = "done"
  /\ UNCHANGED << inputVars, thread_count, block_count, scratchVars, block_value,
                  kern, warpVars, visited, sinkVars, storage_words, spmdVars >>

ShrinkBlocks ==
  /\ pc = "shrinkB"
  /\ ShrinkBlockCond(work_count, max_thread_count, block_count)
  /\ block_count' = block_count \div 2
  /\ UNCHANGED << inputVars, pc, thread_count, scratchVars, block_value, launches,
                  stream, kern, warpVars, visited, sinkVars, storage_words, spmdVars >>

EndShrinkBlocks ==
  /\ pc = "shrinkB"
  /\ ~ ShrinkBlockCond(work_count, max_thread_count, block_count)
  /\ pc' = "alloc"
  /\ UNCHANGED << inputVars, thread_count, block_count, scratchVars, block_value,
                  launches, stream, kern, warpVars, visited, sinkVars, storage_words, spmdVars >>

Allocate ==
  /\ pc = "alloc"
  /\ \E ok \in BOOLEAN :
       LET r == AllocateMemory(ok, block_count) IN
         /\ pc' = AfterAllocate(r.status)
         /\ IF r.status = "ok"
              THEN /\ scratch' = "live"
                   /\ block_value' = r.mem
                   /\ allocCount' = allocCount + 1
              ELSE UNCHANGED << scratch, block_value, allocCount >>
  /\ UNCHANGED << inputVars, thread_count, block_count, deallocCount, bufWrites, launches,
                  stream, kern, warpVars, visited, sinkVars, storage_words, spmdVars >>

\* <<< block_count, max_thread_count >>> run_reduce_functor_on_cuda, block finalize
LaunchPhase1 ==
  /\ pc = "launch1"
  /\ \E ok \in BOOLEAN :
       /\ IF ok
           THEN stream' = Append(stream, [kind |-> "functor", grid |-> block_count,
                                           block |-> max_thread_count, fin |-> "block"])
           ELSE UNCHANGED stream
       /\ launches' = Append(launches, ok)
       /\ pc' = AfterPhase1(ok)
  /\ UNCHANGED << inputVars, thread_count, block_count, scratchVars, block_value,
                  kern, warpVars, visited, sinkVars, storage_words, spmdVars >>

\* <<< 1, block_count >>> run_reduce_operator_on_cuda with the serial finalize
LaunchPhase2 ==
  /\ pc = "launch2"
  /\ \E ok \in BOOLEAN :
       /\ IF ok
           THEN stream' = Append(stream, [kind |-> "operator", grid |-> 1,
                                           block |-> block_count, fin |-> "functor"])
           ELSE UNCHANGED stream
       /\ launches' = Append(launches, ok)
       /\ pc' = AfterPhase2(ok)
  /\ UNCHANGED << inputVars, thread_count, block_count, scratchVars, block_value,
                  kern, warpVars, visited, sinkVars, storage_words, spmdVars >>

Deallocate ==
  /\ pc = "dealloc"
  /\ DeviceIdle
  /\ scratch' = IF scratch = "live" THEN "freed" ELSE "corrupt"
  /\ deallocCount' = deallocCount + 1
  /\ pc' = "done"
  /\ UNCHANGED << inputVars, thread_count, block_count, allocCount, bufWrites,
                  block_value, launches, stream, kern, warpVars, visited, sinkVars, storage_words, spmdVars >>

\* ---- the device: kernels of the stream run one after the other ----

Blocks == 0 .. (kern.grid - 1)

Started(b) == \E w \in Warps(kern.block) : wpc[b][w] # "entry"

Finished(b) == \A w \in Warps(kern.block) : wpc[b][w] = "exit"

Resident == {b \in Blocks : Started(b) /\ ~ Finished(b)}

\* a warp may take a step if its block is resident or can become resident
Schedulable(b) == Started(b) \/ Resident = {}

\* lanes of warp w of block b whose grid-stride loop has an iteration k
WorkLanes(b, w, k) ==
  {l \in LanesOf(w, kern.block) :
     FirstWork(l, b, kern.block) + k * WorkStride(kern.block, kern.grid) < work_count}

\* a word of the scratch buffer as a kernel reads it
BufRead(i) ==
  IF scratch = "live" /\ i \in DOMAIN block_value THEN block_value[i] ELSE Poison

\* reduce_type::value of slot l of a word array of slots: the value whose
\* words the slot holds (words of different values make no value)
SlotValue(mem, l) ==
  LET ws == {mem[l * SlotWords + k] : k \in 0 .. (WordCount - 1)}
  IN IF Cardinality(ws) = 1 THEN CHOOSE v \in ws : TRUE ELSE Poison

\* the word array after every lane l of L assigned val[l] to the value of its slot
Store(mem, L, val) ==
  [i \in DOMAIN mem |->
     IF (i \div SlotWords) \in L /\ (i % SlotWords) < WordCount
       THEN val[i \div SlotWords]
       ELSE mem[i]]

\* reduce_shared_on_cuda: if ( warpSize < j ) { __syncthreads(); }
NeedsBarrier(j) == WarpSize < j

\* CudaParallelReduceFinalizeBlock: if ( warpSize < reduce_type::WordCount ) { __syncthreads(); }
NeedsStoreBarrierNever == FALSE

NeedsStoreBarrier == WarpSize < WordCount

\* CudaParallelReduceFinalizeFunctor: if ( 1 == gridDim.x && 0 == threadIdx.x )
Delivers(gdim, l) == gdim = 1 /\ l = 0

\* run_reduce_operator_on_cuda: n = CudaWordCount< reduce_type >::value * blockDim.x
CopyCount(bdim) == SlotWords * bdim

\* the words lane l copies: i = threadIdx.x ; i < n ; i += blockDim.x
CopyWord(l, r, bdim) == l + r * bdim

\* CudaParallelReduceFinalizeBlock: lanes of warp w with an iteration r of
\* for ( i = threadIdx.x ; i < WordCount ; i += blockDim.x )
StoreLanes(w, r) == {l \in LanesOf(w, kern.block) : l + r * kern.block < WordCount}

\* output = block_value + blockIdx.x ; output->storage[i]
OutputWordNoBlock(b, i) == i

OutputWord(b, i) == b * SlotWords + i

\* lanes of warp w that pass the guard of the finalize functor of the kernel
FinalizeLanes(w) ==
  IF kern.fin = "functor"
    THEN {l \in LanesOf(w, kern.block) : Delivers(kern.grid, l)}
    ELSE StoreLanes(w, 0)

\* reduce_shared_on_cuda: for ( j = blockDim.x ; j ; ) { j >>= 1 ; ... }
\* An iteration in which the warp meets no barrier and none of its lanes has
\* threadIdx.x < j touches nothing: the warp's loop variable is kept at the
\* next iteration that does something (0: the loop is over).
RECURSIVE LoopAtInsideGuard(_, _)
LoopAtInsideGuard(w, j) ==
  IF j = 0 THEN 0
  ELSE IF \E l \in LanesOf(w, kern.block) : l < j \div 2
         THEN j
         ELSE LoopAtInsideGuard(w, j \div 2)

RECURSIVE LoopAt(_, _)
LoopAt(w, j) ==
  IF j = 0 THEN 0
  ELSE IF NeedsBarrier(j \div 2) \/ (\E l \in LanesOf(w, kern.block) : l < j \div 2)
         THEN j
         ELSE LoopAt(w, j \div 2)

\* where the warp stands with loop variable j: in the loop, at the finalize
\* functor, or (no barrier there and no lane with something to do in it)
\* past the kernel's end
PcAt(w, j) ==
  IF j = 0 /\ FinalizeLanes(w) = {} /\ ~ (kern.fin = "block" /\ NeedsStoreBarrier)
    THEN "exit" ELSE "loop"

KernelStart ==
  /\ kern = NoKernel
  /\ stream # << >>
  /\ kern' = Head(stream)
  /\ stream' = Tail(stream)
  /\ LET k == Head(stream) IN
       /\ shared' = [b \in 0 .. (k.grid - 1) |->
                       [i \in 0 .. (SlotWords * k.block - 1) |-> Poison]]
       /\ wpc' = [b \in 0 .. (k.grid - 1) |-> [w \in Warps(k.block) |-> "entry"]]
       /\ wj' = [b \in 0 .. (k.grid - 1) |-> [w \in Warps(k.block) |-> k.block]]
       /\ wk' = [b \in 0 .. (k.grid - 1) |-> [w \in Warps(k.block) |-> 0]]
  /\ UNCHANGED << inputVars, hostVars, scratchVars, block_value, launches,
                  visited, sinkVars, storage_words, spmdVars >>

\* run_reduce_functor_on_cuda: FunctorType::init( shared_local->value )
LaneInit(b, w) ==
  /\ kern.kind = "functor"
  /\ wpc[b][w] = "entry"
  /\ Schedulable(b)
  /\ shared' = [shared EXCEPT ![b] =
                  Store(shared[b], LanesOf(w, kern.block),
                        [l \in LanesOf(w, kern.block) |-> Identity])]
  /\ IF WorkLanes(b, w, 0) = {}
       THEN /\ wj' = [wj EXCEPT ![b][w] = LoopAt(w, kern.block)]
            /\ wpc' = [wpc EXCEPT ![b][w] = PcAt(w, LoopAt(w, kern.block))]
       ELSE /\ wpc' = [wpc EXCEPT ![b][w] = "work"]
            /\ UNCHANGED wj
  /\ UNCHANGED << inputVars, hostVars, scratchVars, block_value, launches, stream,
                  kern, wk, visited, sinkVars, storage_words, spmdVars >>

\* run_reduce_functor_on_cuda: one iteration of the grid-stride loop
LaneWork(b, w) ==
  /\ kern.kind = "functor"
  /\ wpc[b][w] = "work"
  /\ LET k == wk[b][w]
         act == WorkLanes(b, w, k)
         iwork(l) == FirstWork(l, b, kern.block) + k * WorkStride(kern.block, kern.grid)
     IN /\ shared' = [shared EXCEPT ![b] =
                        Store(shared[b], act,
                              [l \in act |-> Apply(iwork(l), SlotValue(shared[b], l))])]
        /\ visited' = visited (+) SetToBag({iwork(l) : l \in act})
        /\ IF WorkLanes(b, w, k + 1) = {}
             THEN /\ wk' = [wk EXCEPT ![b][w] = 0]
                  /\ wj' = [wj EXCEPT ![b][w] = LoopAt(w, kern.block)]
                  /\ wpc' = [wpc EXCEPT ![b][w] = PcAt(w, LoopAt(w, kern.block))]
             ELSE /\ wk' = [wk EXCEPT ![b][w] = k + 1]
                  /\ UNCHANGED << wpc, wj >>
  /\ UNCHANGED << inputVars, hostVars, scratchVars, block_value, launches, stream,
                  kern, sinkVars, storage_words, spmdVars >>

\* run_reduce_operator_on_cuda: one iteration of the copy loop,
\* shared_memory[i] = block_result[i]
LaneCopy(b, w) ==
  /\ kern.kind = "operator"
  /\ wpc[b][w] = "entry"
  /\ Schedulable(b)
  /\ LET r == wk[b][w]
         words == {i \in {CopyWord(l, r, kern.block) : l \in LanesOf(w, kern.block)} :
                     i < CopyCount(kern.block)}
     IN /\ shared' = [shared EXCEPT ![b] =
                        [i \in DOMAIN @ |-> IF i \in words THEN BufRead(i) ELSE @[i]]]
        /\ IF \E l \in LanesOf(w, kern.block) :
                 CopyWord(l, r + 1, kern.block) < CopyCount(kern.block)
             THEN /\ wk' = [wk EXCEPT ![b][w] = r + 1]
                  /\ UNCHANGED << wpc, wj >>
             ELSE /\ wk' = [wk EXCEPT ![b][w] = 0]
                  /\ wj' = [wj EXCEPT ![b][w] = LoopAt(w, kern.block)]
                  /\ wpc' = [wpc EXCEPT ![b][w] = PcAt(w, LoopAt(w, kern.block))]
  /\ UNCHANGED << inputVars, hostVars, scratchVars, block_value, launches, stream,
                  kern, visited, sinkVars, storage_words, spmdVars >>

\* reduce_shared_on_cuda: the lanes of warp w that pass if ( threadIdx.x < j )
JoinLanesUnguarded(w, j) == LanesOf(w, kern.block)

JoinLanes(w, j) == {l \in LanesOf(w, kern.block) : l < j}

\* the slot shared_local[j] of lane l: shared_local is slot threadIdx.x
JoinSlot(l, j) == l + j

\* reduce_shared_on_cuda: if ( threadIdx.x < j ) join( shared_local->value , shared_local[j].value )
Joined(mem, w, j) ==
  LET act == JoinLanes(w, j)
  IN Store(mem, act, [l \in act |-> Join(SlotValue(mem, l), SlotValue(mem, JoinSlot(l, j)))])

\* reduce_shared_on_cuda: j >>= 1, then the barrier or directly the join
ReduceStep(b, w) ==
  /\ wpc[b][w] = "loop"
  /\ wj[b][w] # 0
  /\ LET j == wj[b][w] \div 2 IN
       IF NeedsBarrier(j)
         THEN /\ wj' = [wj EXCEPT ![b][w] = j]
              /\ wpc' = [wpc EXCEPT ![b][w] = "bar"]
              /\ UNCHANGED shared
         ELSE /\ shared' = [shared EXCEPT ![b] = Joined(shared[b], w, j)]
              /\ wj' = [wj EXCEPT ![b][w] = LoopAt(w, j)]
              /\ wpc' = [wpc EXCEPT ![b][w] = PcAt(w, LoopAt(w, j))]
  /\ UNCHANGED << inputVars, hostVars, scratchVars, block_value, launches, stream,
                  kern, wk, visited, sinkVars, storage_words, spmdVars >>

\* __syncthreads: released when every warp of the block has arrived at one;
\* a warp goes on after the barrier it waited at (past the one of the
\* finalize with no word to store, it is at the kernel's end)
BarrierRelease(b) ==
  /\ kern # NoKernel
  /\ b \in Blocks
  /\ \A w \in Warps(kern.block) : wpc[b][w] \in {"bar", "fbar"}
  /\ wpc' = [wpc EXCEPT ![b] =
               [w \in DOMAIN @ |-> IF @[w] = "bar" THEN "join"
                                   ELSE IF StoreLanes(w, 0) = {} THEN "exit"
                                   ELSE "store"]]
  /\ UNCHANGED << inputVars, hostVars, scratchVars, block_value, launches, stream,
                  kern, wj, wk, shared, visited, sinkVars, storage_words, spmdVars >>

\* reduce_shared_on_cuda: the join after the barrier
JoinStep(b, w) ==
  /\ wpc[b][w] = "join"
  /\ shared' = [shared EXCEPT ![b] = Joined(shared[b], w, wj[b][w])]
  /\ wj' = [wj EXCEPT ![b][w] = LoopAt(w, wj[b][w])]
  /\ wpc' = [wpc EXCEPT ![b][w] = PcAt(w, LoopAt(w, wj[b][w]))]
  /\ UNCHANGED << inputVars, hostVars, scratchVars, block_value, launches, stream,
                  kern, wk, visited, sinkVars, storage_words, spmdVars >>

\* CudaParallelReduceFinalizeFunctor::operator(): serial_finalize( shared_local->value )
FinalizeFunctor(b, w) ==
  /\ kern.fin = "functor"
  /\ wpc[b][w] = "loop"
  /\ wj[b][w] = 0
  /\ LET callers == FinalizeLanes(w)
         value == SlotValue(shared[b], 0)
     IN IF callers # {}
          THEN \E g \in GarbageVals :
                 /\ delivered' = value
                 /\ garbage' = (IF Indeterminate(value) THEN g ELSE 0)
                 /\ finalizeCalls' = finalizeCalls + Cardinality(callers)
                 /\ finalizeBy' = Append(finalizeBy, [grid |-> kern.grid, block |-> b,
                                                      lanes |-> callers, kind |-> kern.kind])
          ELSE UNCHANGED sinkVars
  /\ wpc' = [wpc EXCEPT ![b][w] = "exit"]
  /\ UNCHANGED << inputVars, hostVars, scratchVars, block_value, launches, stream,
                  kern, wj, wk, shared, visited, storage_words, spmdVars >>

\* CudaParallelReduceFinalizeBlock::operator(): the warp arrives at
\* if ( warpSize < reduce_type::WordCount ) { __syncthreads(); }
StoreArrive(b, w) ==
  /\ kern.fin = "block"
  /\ wpc[b][w] = "loop"
  /\ wj[b][w] = 0
  /\ NeedsStoreBarrier
  /\ wpc' = [wpc EXCEPT ![b][w] = "fbar"]
  /\ UNCHANGED << inputVars, hostVars, scratchVars, block_value, launches, stream,
                  kern, wj, wk, shared, visited, sinkVars, storage_words, spmdVars >>

\* CudaParallelReduceFinalizeBlock::operator(): one iteration of
\* for ( i = threadIdx.x ; i < WordCount ; i += blockDim.x )
\*   output->storage[i] = shared_local->storage[i]
FinalizeBlock(b, w) ==
  /\ kern.fin = "block"
  /\ \/ wpc[b][w] = "loop" /\ wj[b][w] = 0 /\ ~ NeedsStoreBarrier
     \/ wpc[b][w] = "store"
  /\ LET r == wk[b][w]
         writers == StoreLanes(w, r)
         from(i) == CHOOSE l \in writers : OutputWord(b, l + r * kern.block) = i
         written == {OutputWord(b, l + r * kern.block) : l \in writers}
     IN /\ IF scratch = "live"
             THEN block_value' =
                    [i \in DOMAIN block_value |->
                       IF i \in written THEN shared[b][from(i) + r * kern.block]
                                        ELSE block_value[i]]
             ELSE UNCHANGED block_value
        /\ bufWrites' = bufWrites (+)
             SetToBag({[word |-> OutputWord(b, l + r * kern.block), block |-> b,
                        lane |-> l, kind |-> kern.kind] : l \in writers})
        /\ IF StoreLanes(w, r + 1) = {}
             THEN /\ wpc' = [wpc EXCEPT ![b][w] = "exit"]
                  /\ wk' = [wk EXCEPT ![b][w] = 0]
             ELSE /\ wpc' = [wpc EXCEPT ![b][w] = "store"]
                  /\ wk' = [wk EXCEPT ![b][w] = r + 1]
  /\ UNCHANGED << inputVars, hostVars, scratch, allocCount, deallocCount, launches,
                  stream, kern, wj, shared, visited, sinkVars, storage_words, spmdVars >>

KernelComplete ==
  /\ kern # NoKernel
  /\ \A b \in Blocks : Finished(b)
  /\ kern' = NoKernel
  /\ wpc' = Empty
  /\ wj' = Empty
  /\ wk' = Empty
  /\ shared' = Empty
  /\ UNCHANGED << inputVars, hostVars, scratchVars, block_value, launches, stream,
                  visited, sinkVars, storage_words, spmdVars >>

WarpIds == Blocks \X Warps(kern.block)

DoLaneInit == \E bw \in WarpIds : LaneInit(bw[1], bw[2])
DoLaneWork == \E bw \in WarpIds : LaneWork(bw[1], bw[2])
DoLaneCopy == \E bw \in WarpIds : LaneCopy(bw[1], bw[2])
DoReduceStep == \E bw \in WarpIds : ReduceStep(bw[1], bw[2])
DoBarrierRelease == \E b \in Blocks : BarrierRelease(b)
DoJoinStep == \E bw \in WarpIds : JoinStep(bw[1], bw[2])
DoFinalizeFunctor == \E bw \in WarpIds : FinalizeFunctor(bw[1], bw[2])
DoStoreArrive == \E bw \in WarpIds : StoreArrive(bw[1], bw[2])
DoFinalizeBlock == \E bw \in WarpIds : FinalizeBlock(bw[1], bw[2])

Next ==
  \/ Call
  \/ ShrinkThreads
  \/ LaunchSingle
  \/ ShrinkBlocks
  \/ EndShrinkBlocks
  \/ Allocate
  \/ LaunchPhase1
  \/ LaunchPhase2
  \/ Deallocate
  \/ KernelStart
  \/ DoLaneInit
  \/ DoLaneWork
  \/ DoLaneCopy
  \/ DoReduceStep
  \/ DoBarrierRelease
  \/ DoJoinStep
  \/ DoFinalizeFunctor
  \/ DoFinalizeBlock
  \/ KernelComplete

\* with the barrier of the block finalize, which is compiled for the value
\* types of more words than a warp has lanes
WideNext == Next \/ DoStoreArrive

Spec == Init /\ [][Next]_vars

FairSpec == Init /\ [][Next]_vars /\ WF_vars(Next)

\* ---- value types of several words ----

\* word counts tried: one word, as many words as a warp has lanes, and more
\* words than the lanes of a block of two warps
ValueSizes == {SizeofWord * n : n \in {1, WarpSize, WarpSize + 2}}

\* device limits tried: blocks of one lane, of two warps and of the most
\* lanes; one block, and as many blocks as make two warps in the second kernel
WideThreads == {1, WarpSize + 1, MaxThreads}

WideBlocks == {1, MaxBlocks + 1}

\* the blocks of the most lanes are tried in grids of one block only
WideLimits == (WideThreads \X WideBlocks) \ {<< MaxThreads, MaxBlocks + 1 >>}

\* work counts tried: the largest of the single-block path, the least of the
\* multi-block path and one that gives every block of the largest grid work
WideWorkCounts(mtc, bcm) == {mtc - 1, mtc, mtc * bcm}

WideInit ==
  /\ \E lim \in WideLimits :
       /\ max_thread_count = lim[1]
       /\ block_count_max = lim[2]
  /\ work_count \in WideWorkCounts(max_thread_count, block_count_max)
  /\ value_size \in ValueSizes
  /\ storage_words = StorageWords(value_size)
  /\ pc = "call"
  /\ thread_count = 0
  /\ block_count = 0
  /\ scratch = "none"
  /\ block_value = Empty
  /\ allocCount = 0
  /\ deallocCount = 0
  /\ launches = << >>
  /\ IdleDevice
  /\ visited = EmptyBag
  /\ finalizeCalls = 0
  /\ delivered = Poison
  /\ garbage = 0
  /\ finalizeBy = << >>
  /\ bufWrites = EmptyBag
  /\ SpmdIdle

WideSpec == WideInit /\ [][WideNext]_vars

FairWideSpec == WideInit /\ [][WideNext]_vars /\ WF_vars(WideNext)

\* ---- storage layout of an arbitrary value type ----

LayoutInit ==
  /\ value_size \in 1 .. MaxSizeof
  /\ storage_words = 0
  /\ pc = "layout"
  /\ work_count = 0
  /\ max_thread_count = 1
  /\ block_count_max = 1
  /\ thread_count = 0
  /\ block_count = 0
  /\ scratch = "none"
  /\ block_value = Empty
  /\ allocCount = 0
  /\ deallocCount = 0
  /\ launches = << >>
  /\ IdleDevice
  /\ visited = EmptyBag
  /\ finalizeCalls = 0
  /\ delivered = Poison
  /\ garbage = 0
  /\ finalizeBy = << >>
  /\ bufWrites = EmptyBag
  /\ SpmdIdle

\* CudaSharedMemoryReduceType< ValueType >::storage is laid out
Layout ==
  /\ pc = "layout"
  /\ storage_words' = StorageWords(value_size)
  /\ pc' = "laid"
  /\ UNCHANGED << inputVars, thread_count, block_count, scratchVars, block_value,
                  launches, stream, kern, warpVars, visited, sinkVars, spmdVars >>

LayoutNext == Layout

LayoutSpec == LayoutInit /\ [][LayoutNext]_vars

\* ==== Thyra::SpmdVectorBase (Thyra_SpmdVectorBase_def.hpp) ====
\*
\* One SpmdVectorBase object in one process of an SPMD program, identified
\* by the part [localOffset_, localOffset_ + localSubDim_) of the globalDim_
\* elements the process holds (possibly none).  The processes of the
\* communicator run applyOpImplWithComm on their objects independently up to
\* the call of RTOpPack::SPMD_apply_op; what holds of the object for every
\* local part holds on every process.  RTOp_parallel_calc_overlap,
\* SPMD_apply_op, the operator and VectorDefaultBase are callees from other
\* files: a callee returns any result its interface allows, or throws.

\* the state after the constructor SpmdVectorBase() and updateSpmdSpace()
\* with the space of the process; the argument vectors are vectors of a
\* compatible space (the debug build validates that), in a build without
\* the validation of any space of the same dimension
SpmdInit ==
  /\ debug \in BOOLEAN
  /\ in_applyOpImpl_ = FALSE
  /\ globalDim_ \in 1 .. MaxDim
  /\ \E part \in LocalParts(globalDim_) : localOffset_ = part[1] /\ localSubDim_ = part[2]
  /\ vecPart \in LocalParts(globalDim_)
  /\ debug => vecPart = << localOffset_, localSubDim_ >>
  /\ num_vecs \in 0 .. MaxVecs
  /\ num_targ_vecs \in 0 .. MaxVecs
  /\ comm_in = "null"
  /\ apc = "idle"
  /\ locallyReplicated = FALSE
  /\ overlap = NoOverlap
  /\ local_rng = Range1DInvalid
  /\ sub_vecs = << >>
  /\ sub_targ_vecs = << >>
  /\ applied = << >>
  /\ callCount = 0
  /\ lastExit = "none"
  /\ reportedRecursive = FALSE
  /\ KokkosIdle

\* an exception leaves applyOpImplWithComm: nothing in the function catches
\* it and no destructor touches in_applyOpImpl_
Thrown ==
  /\ apc' = "idle"
  /\ lastExit' = "throw"

\* a caller invokes applyOpImplWithComm (through applyOpImpl with a null
\* communicator, or directly with one); lines 114-137
Invoke ==
  /\ apc = "idle"
  /\ callCount < MaxCalls
  /\ callCount' = callCount + 1
  /\ comm_in' \in {"null", "comm"}
  /\ apc' = "entry"
  /\ lastExit' = "none"
  /\ sub_vecs' = [k \in 0 .. (num_vecs - 1) |-> NullView]
  /\ sub_targ_vecs' = [k \in 0 .. (num_targ_vecs - 1) |-> NullView]
  /\ applied' = << >>
  /\ overlap' = NoOverlap
  /\ local_rng' = Range1DInvalid
  /\ locallyReplicated' = FALSE
  /\ UNCHANGED << kokkosVars, objectVars, argVars, reportedRecursive >>

\* #ifdef TEUCHOS_DEBUG TEST_FOR_EXCEPTION( in_applyOpImpl_ , ... ) and
\* apply_op_validate_input; then in_applyOpImpl_ = true
Enter(valid) ==
  IF debug /\ in_applyOpImpl_ THEN [exit |-> "recursive", flag |-> in_applyOpImpl_]
  ELSE IF debug /\ ~ valid THEN [exit |-> "invalid", flag |-> in_applyOpImpl_]
  ELSE [exit |-> "none", flag |-> TRUE]

EnterApplyOp ==
  /\ apc = "entry"
  /\ \E valid \in BOOLEAN :
       LET r == Enter(valid) IN
         /\ in_applyOpImpl_' = r.flag
         /\ reportedRecursive' = (reportedRecursive \/ r.exit = "recursive")
         /\ IF r.exit = "none"
              THEN apc' = "overlap" /\ UNCHANGED lastExit
              ELSE Thrown
  /\ UNCHANGED << kokkosVars, debug, globalDim_, localOffset_, localSubDim_, argVars,
                  comm_in, locallyReplicated, overlap, local_rng, sub_vecs,
                  sub_targ_vecs, applied, callCount >>

\* locallyReplicated = ( comm_in == null && localSubDim_ == globalDim_ )
LocallyReplicated == comm_in = "null" /\ localSubDim_ = globalDim_

\* the overlap of the local part with the requested sub-vector: all zero and
\* no call of RTOp_parallel_calc_overlap for a process without elements,
\* else what the callee reports, no overlap (-1) or a non-empty part of the
\* local elements with the global offset of its first element
OverlapResults ==
  IF localSubDim_ = 0
    THEN {[first_local_ele_off |-> 0, local_sub_dim |-> 0, global_off |-> 0]}
    ELSE {NoOverlap} \cup
         {ov \in [first_local_ele_off : 0 .. (localSubDim_ - 1),
                  local_sub_dim : 1 .. localSubDim_,
                  global_off : 0 .. globalDim_] :
            ov.first_local_ele_off + ov.local_sub_dim <= localSubDim_}

\* local_rng = overlap_first_local_ele_off >= 0 ? Range1D( ... ) : Range1D::Invalid
LocalRng(ov) ==
  IF ov.first_local_ele_off >= 0
    THEN Range1D(localOffset_ + ov.first_local_ele_off,
                 localOffset_ + ov.first_local_ele_off + ov.local_sub_dim - 1)
    ELSE Range1DInvalid

\* if( overlap_first_local_ele_off >= 0 ) guards both loops over the views
ViewsWanted(ov) == ov.first_local_ele_off >= 0

\* the statement after the overlap is known: the loops that acquire the
\* views if there is something to acquire, and then the call of
\* SPMD_apply_op, which is under no condition
AfterOverlapApplyIfOverlap(ov) ==
  IF ViewsWanted(ov)
    THEN (IF num_vecs + num_targ_vecs > 0 THEN "acquire" ELSE "apply")
    ELSE "leave"

AfterOverlap(ov) ==
  IF ViewsWanted(ov) /\ num_vecs + num_targ_vecs > 0 THEN "acquire" ELSE "apply"

\* the statement after SPMD_apply_op: the loops that release and commit
AfterApply(ov) ==
  IF ViewsWanted(ov) /\ num_vecs + num_targ_vecs > 0 THEN "release" ELSE "leave"

CalcOverlap ==
  /\ apc = "overlap"
  /\ locallyReplicated' = LocallyReplicated
  /\ \E ov \in OverlapResults :
       /\ overlap' = ov
       /\ local_rng' = LocalRng(ov)
       /\ apc' = AfterOverlap(ov)
  /\ UNCHANGED << kokkosVars, objectVars, argVars, comm_in, sub_vecs, sub_targ_vecs,
                  applied, callCount, lastExit, reportedRecursive >>

\* validateRange: Teuchos::full_range( rng_in , 0 , globalDim_ - 1 ) leaves a
\* range with explicit bounds as it is; the debug build rejects a range
\* outside [0, globalDim_ - 1]
ValidateRange(rng) ==
  IF debug /\ ~ (0 <= rng.lbound /\ rng.ubound < globalDim_)
    THEN [exit |-> "throw", rng |-> rng]
    ELSE [exit |-> "none", rng |-> rng]

\* acquireDetachedVectorViewImpl and acquireNonconstDetachedVectorViewImpl of
\* a vector that holds the part << offset, subDim >>
AcquireImpl(rng_in, part, view) ==
  IF rng_in = Range1DInvalid
    THEN [exit |-> "none",
          view |-> [NullView EXCEPT !.st = "held", !.via = "null",
                                    !.acquired = view.acquired + 1]]
  ELSE IF ValidateRange(rng_in).exit = "throw"
    THEN [exit |-> "throw", view |-> view]
  ELSE LET rng == ValidateRange(rng_in).rng IN
    [exit |-> "none",
     view |-> [st |-> "held",
               via |-> IF rng.lbound < part[1] \/ part[1] + part[2] - 1 < rng.ubound
                         THEN "default" ELSE "local",
               globalOffset |-> rng.lbound,
               subDim |-> RangeSize(rng),
               acquired |-> view.acquired + 1,
               released |-> view.released,
               freedVia |-> view.freedVia]]

\* releaseDetachedVectorViewImpl and commitNonconstDetachedVectorViewImpl
ReleaseImpl(part, view) ==
  IF debug /\ (view.globalOffset < 0 \/ view.globalOffset + view.subDim > globalDim_)
    THEN [exit |-> "throw", view |-> view]
    ELSE [exit |-> "none",
          view |-> [view EXCEPT
                      !.st = "freed",
                      !.released = view.released + 1,
                      !.freedVia =
                         IF view.globalOffset < part[1]
                              \/ part[1] + part[2] < view.globalOffset + view.subDim
                           THEN "default" ELSE "local"]]

\* sub_vecs[k].setGlobalOffset( local_rng.lbound() ) before the release
RestoredOffset(rng, ov) == rng.lbound

\* the first view of an array in state st (the loop index k)
Pending(views, st) == {k \in DOMAIN views : views[k].st = st}

First(S) == CHOOSE k \in S : \A m \in S : k <= m

\* one iteration of for( k < num_vecs ) / for( k < num_targ_vecs ) of lines
\* 202-209 on the array views: acquireDetachedView( local_rng , &views[k] )
\* then views[k].setGlobalOffset( overlap_global_off ); the default
\* implementation (VectorDefaultBase) may throw
Acquire(views, other) ==
  /\ apc = "acquire"
  /\ Pending(views, "null") # {}
  /\ LET k == First(Pending(views, "null"))
         r == AcquireImpl(local_rng, vecPart, views[k])
     IN \E ok \in BOOLEAN :
          IF r.exit = "throw" \/ (r.view.via = "default" /\ ~ ok)
            THEN /\ Thrown
                 /\ views' = views
            ELSE /\ views' = [views EXCEPT ![k] =
                                [r.view EXCEPT !.globalOffset = overlap.global_off]]
                 /\ apc' = IF Pending(views, "null") = {k} /\ Pending(other, "null") = {}
                             THEN "apply" ELSE "acquire"
                 /\ UNCHANGED lastExit
  /\ other' = other
  /\ UNCHANGED << kokkosVars, objectVars, argVars, comm_in, locallyReplicated, overlap,
                  local_rng, applied, callCount, reportedRecursive >>

AcquireVec == Pending(sub_vecs, "null") # {} /\ Acquire(sub_vecs, sub_targ_vecs)

AcquireTargVec == Pending(sub_vecs, "null") = {} /\ Acquire(sub_targ_vecs, sub_vecs)

\* RTOpPack::SPMD_apply_op( locallyReplicated ? NULL : &*comm , op , ... );
\* the operator or the communication may throw
ApplyOp ==
  /\ apc = "apply"
  /\ applied' = Append(applied, IF locallyReplicated THEN "NULL" ELSE "comm")
  /\ \E ok \in BOOLEAN :
       IF ok THEN apc' = AfterApply(overlap) /\ UNCHANGED lastExit
             ELSE Thrown
  /\ UNCHANGED << kokkosVars, objectVars, argVars, comm_in, locallyReplicated, overlap,
                  local_rng, sub_vecs, sub_targ_vecs, callCount, reportedRecursive >>

\* one iteration of the loops of lines 225-232 on the array views:
\* views[k].setGlobalOffset( local_rng.lbound() ) then releaseDetachedView /
\* commitDetachedView( &views[k] )
Release(views, other) ==
  /\ apc = "release"
  /\ Pending(views, "held") # {}
  /\ LET k == First(Pending(views, "held"))
         v == [views[k] EXCEPT !.globalOffset = RestoredOffset(local_rng, overlap)]
         r == ReleaseImpl(vecPart, v)
     IN \E ok \in BOOLEAN :
          IF r.exit = "throw" \/ (r.view.freedVia = "default" /\ ~ ok)
            THEN /\ Thrown
                 /\ views' = [views EXCEPT ![k] = v]
            ELSE /\ views' = [views EXCEPT ![k] = r.view]
                 /\ apc' = IF Pending(views, "held") = {k} /\ Pending(other, "held") = {}
                             THEN "leave" ELSE "release"
                 /\ UNCHANGED lastExit
  /\ other' = other
  /\ UNCHANGED << kokkosVars, objectVars, argVars, comm_in, locallyReplicated, overlap,
                  local_rng, applied, callCount, reportedRecursive >>

ReleaseVec == Pending(sub_vecs, "held") # {} /\ Release(sub_vecs, sub_targ_vecs)

CommitTargVec == Pending(sub_vecs, "held") = {} /\ Release(sub_targ_vecs, sub_vecs)

\* in_applyOpImpl_ = false and the return
LeaveApplyOp ==
  /\ apc = "leave"
  /\ in_applyOpImpl_' = FALSE
  /\ apc' = "idle"
  /\ lastExit' = "return"
  /\ UNCHANGED << kokkosVars, debug, globalDim_, localOffset_, localSubDim_, argVars,
                  comm_in, locallyReplicated, overlap, local_rng, sub_vecs,
                  sub_targ_vecs, applied, callCount, reportedRecursive >>

SpmdNext ==
  \/ Invoke
  \/ EnterApplyOp
  \/ CalcOverlap
  \/ AcquireVec
  \/ AcquireTargVec
  \/ ApplyOp
  \/ ReleaseVec
  \/ CommitTargVec
  \/ LeaveApplyOp

SpmdSpec == SpmdInit /\ [][SpmdNext]_vars

\* ---- notions the properties are stated in ----

\* the call has returned and the device has finished what it queued
Completed == pc = "done" /\ DeviceIdle

LaunchError == \E i \in 1 .. Len(launches) : ~ launches[i]

SinglePath == work_count < max_thread_count

\* the kernels issued and not yet finished
Issued == {stream[i] : i \in 1 .. Len(stream)} \cup (IF kern = NoKernel THEN {} ELSE {kern})

\* every lane of the work-distribution kernel has left its grid-stride loop
WorkLoopsOver ==
  /\ Len(launches) >= 1
  /\ launches[1]
  /\ \A k \in Issued : k.kind = "functor" =>
       /\ k = kern
       /\ \A b \in Blocks : \A w \in Warps(kern.block) : wpc[b][w] \notin {"entry", "work"}

\* the bag lane l of block b accumulates in its grid-stride loop
LaneBag(l, b, bdim, gdim, wc) ==
  SetToBag({i \in 0 .. (wc - 1) :
              i >= l + bdim * b /\ (i - (l + bdim * b)) % (bdim * gdim) = 0})

\* the tree combiner when every read sees the writes of the step before
RECURSIVE Tree(_, _)
Tree(slots, j) ==
  IF j = 0 THEN slots
  ELSE Tree([l \in DOMAIN slots |->
               IF l < j \div 2 THEN slots[l] (+) slots[l + (j \div 2)] ELSE slots[l]],
            j \div 2)

BlockResult(b, bdim, gdim, wc) ==
  Tree([l \in 0 .. (bdim - 1) |-> LaneBag(l, b, bdim, gdim, wc)], bdim)[0]

\* what the call delivers under the schedule in which the warps never overtake
\* each other
LockstepResult ==
  IF SinglePath
    THEN BlockResult(0, thread_count, 1, work_count)
    ELSE Tree([b \in 0 .. (block_count - 1) |->
                 BlockResult(b, max_thread_count, block_count, work_count)],
              block_count)[0]

\* ---- properties ----

\* C1: for fixed work_count and device limits, the value handed to the
\* finalize functor is the same under every interleaving of the warps and
\* every order of the blocks (it is the value of the lockstep schedule).
C1_Deterministic ==
  (Completed /\ ~ LaunchError) =>
     \A f \in Functors : Value(f, delivered, garbage) = Value(f, LockstepResult, garbage)

\* C2: for sum, product, min and max the result equals the sequential fold of
\* the contributions of 0 .. work_count-1, whatever the device limits are.
C2_EqualsSequentialFold ==
  (Completed /\ ~ LaunchError) =>
     \A f \in Functors \ {"count"} : Value(f, delivered, garbage) = SeqFold(f, work_count)

\* C3: a call with work_count = 0 completes and delivers the identity value.
C3_EmptyDomainReturnsIdentity ==
  (pc = "call" /\ work_count = 0) ~>
     (Completed /\ (LaunchError \/ (finalizeCalls = 1 /\ delivered = Identity)))

\* C4: with the functor that adds 1 per index the result is N for each N of
\* {0, 1, mtc-1, mtc, mtc+1, 3*mtc*bcm}.
C4_CountAtThresholds ==
  (Completed /\ ~ LaunchError /\ work_count \in Thresholds(max_thread_count, block_count_max)) =>
     Value("count", delivered, garbage) = work_count

\* C5: the grid-stride loop applies the functor to no index outside
\* 0 .. work_count-1, to no index twice, and, once every lane has left the
\* loop, to every index of 0 .. work_count-1.
C5_Coverage ==
  /\ \A i \in DOMAIN visited : i \in 0 .. (work_count - 1) /\ visited[i] = 1
  /\ WorkLoopsOver => DOMAIN visited = 0 .. (work_count - 1)

C5_Witness ==
  /\ WorkLoopsOver
  /\ kern.kind = "functor"
  /\ kern.grid = 2
  /\ work_count > kern.grid * kern.block
  /\ DOMAIN visited = 0 .. (work_count - 1)

\* C6: in every call the finalize callback runs exactly once, on lane 0 of a
\* one-block launch, and receives the fully combined aggregate.
C6_FinalizeOnceWithTotal ==
  (Completed /\ ~ LaunchError) =>
     /\ finalizeCalls = 1
     /\ Len(finalizeBy) = 1
     /\ finalizeBy[1].grid = 1
     /\ finalizeBy[1].lanes = {0}
     /\ \A f \in Functors : Value(f, delivered, garbage) = SeqFold(f, work_count)

\* C7: on the multi-block path the scratch buffer is allocated once and
\* freed once on every exit of the call, also when a launch was rejected;
\* it is never freed twice or freed without having been allocated, and a
\* call that ends without a buffer (single block, failed allocation) frees none.
C7_ScratchLifecycle ==
  /\ allocCount <= 1
  /\ deallocCount <= allocCount
  /\ scratch # "corrupt"
  /\ pc = "done" =>
       IF SinglePath
         THEN allocCount = 0 /\ scratch = "none"
         ELSE allocCount = 1 /\ deallocCount = 1 /\ scratch = "freed"
  /\ pc = "aborted" => allocCount = 0 /\ deallocCount = 0 /\ scratch = "none"

C7_Witness ==
  /\ pc = "done"
  /\ ~ SinglePath
  /\ Len(launches) = 2
  /\ ~ launches[2]
  /\ deallocCount = 1

\* C8: when the allocation of the scratch buffer fails the call ends before
\* any launch: no kernel is ever issued while there is no live buffer, the
\* finalize callback does not run and nothing is left allocated.
C8_AllocationFailureAborts ==
  /\ \A k \in Issued : (k.fin = "block" \/ k.kind = "operator") => scratch = "live"
  /\ pc = "aborted" =>
       /\ launches = << >>
       /\ DeviceIdle
       /\ finalizeCalls = 0
       /\ scratch = "none"
       /\ allocCount = 0
       /\ deallocCount = 0

C8_Witness == pc = "aborted" /\ ~ SinglePath /\ block_count >= 1

\* C9: every kernel is launched with at least one lane per block and at
\* least one block, and with no more than the device limits.
C9_CountsAtLaunch ==
  \A k \in Issued :
     /\ 1 <= k.block /\ k.block <= max_thread_count
     /\ 1 <= k.grid /\ k.grid <= block_count_max /\ k.grid <= max_thread_count

C9_Witness ==
  \E k \in Issued :
     /\ k.kind = "functor"
     /\ k.grid = 1
     /\ k.fin = "functor"
     /\ k.block < max_thread_count
     /\ 2 * k.block > max_thread_count \div 2

C9_WitnessBlocks ==
  \E k \in Issued : k.fin = "block" /\ k.grid < InitialBlockCount(max_thread_count, block_count_max)

\* the natural word count: the least number of words that hold the bytes
NaturalWords(bytes) ==
  CHOOSE n \in 0 .. bytes : n * SizeofWord >= bytes /\ (n - 1) * SizeofWord < bytes

TreeInput(b, l) ==
  IF kern.kind = "functor"
    THEN LaneBag(l, b, kern.block, kern.grid, work_count)
    ELSE SlotValue([i \in 0 .. (CopyCount(kern.block) - 1) |-> BufRead(i)], l)

RECURSIVE InputsJoined(_, _)
InputsJoined(b, n) == IF n = 0 THEN Identity ELSE Join(InputsJoined(b, n - 1), TreeInput(b, n - 1))

\* every warp of block b has left the loop of reduce_shared_on_cuda
TreeOver(b) ==
  \A w \in Warps(kern.block) : wpc[b][w] \in {"loop", "fbar", "store", "exit"} /\ wj[b][w] = 0

\* the step of the tree (the value of j) warp w of block b executes next
NextStep(b, w) ==
  CASE wpc[b][w] \in {"entry", "work"} -> kern.block \div 2
    [] wpc[b][w] = "loop" -> wj[b][w] \div 2
    [] wpc[b][w] \in {"bar", "join"} -> wj[b][w]
    [] OTHER -> 0

\* warp w of block b can execute the join of its next step now
JoinEnabled(b, w) ==
  \/ wpc[b][w] = "join"
  \/ wpc[b][w] = "loop" /\ wj[b][w] # 0 /\ ~ NeedsBarrier(wj[b][w] \div 2)

\* the lane of slot s has yet to write the value a reader at step j is to
\* see: it is still accumulating or copying, or has a join into s at a step
\* before j ahead of it
WritePending(b, s, j) ==
  LET w2 == s \div WarpSize IN
    \/ wpc[b][w2] \in {"entry", "work"}
    \/ NextStep(b, w2) > j /\ s < NextStep(b, w2)

\* C11: when the tree combiner has returned in a block of L lanes, slot 0
\* holds the combination of the aggregates the L lanes entered it with, each
\* exactly once, for every L >= 1 (in the kernels of a call whose launches
\* were all accepted).
C11_TreeCombinesAllLanes ==
  \A b \in Blocks :
     (TreeOver(b) /\ ~ LaunchError) =>
        SlotValue(shared[b], 0) = InputsJoined(b, kern.block)

\* C12: no warp can execute a join that reads the slot of a lane of another
\* warp while that lane's write of the slot (in the accumulation or copy
\* loop, or in the step before) is still ahead of it: a barrier lies between.
C12_BarrierBeforeCrossWarpRead ==
  \A b \in Blocks : \A w \in Warps(kern.block) :
     JoinEnabled(b, w) =>
       \A l \in LanesOf(w, kern.block) :
          (l < NextStep(b, w) /\ (l + NextStep(b, w)) \div WarpSize # w) =>
             ~ WritePending(b, l + NextStep(b, w), NextStep(b, w))


\* ---- the barriers ----

\* warp w of block b waits at a __syncthreads
AtBarrier(b, w) == wpc[b][w] \in {"bar", "fbar"}

\* some warp waits at a barrier (one block is resident at a time)
BarrierPending == \E b \in Blocks : \E w \in Warps(kern.block) : AtBarrier(b, w)

\* while a warp waits at a barrier no warp of its block has left the kernel,
\* and the warps of the block that wait with it wait at the same barrier
BarriersUniform ==
  \A b \in Blocks : \A w1 \in Warps(kern.block) : \A w2 \in Warps(kern.block) :
     AtBarrier(b, w1) =>
        /\ wpc[b][w2] # "exit"
        /\ AtBarrier(b, w2) => (wpc[b][w2] = wpc[b][w1] /\ wj[b][w2] = wj[b][w1])

\* C13: the barriers of the combiner and of the block finalize are met by
\* all warps of a block alike (the same barriers in the same order, none
\* skipped by a warp that leaves), and a barrier at which warps wait is
\* released (the release lets all of them go at once), for every lane count
\* and word count.
C13_BarriersUniformAndReleased ==
  /\ [] BarriersUniform
  /\ BarrierPending ~> ~ BarrierPending

C13_Witness ==
  /\ kern.fin = "block"
  /\ NeedsStoreBarrier
  /\ NeedsBarrier(kern.block \div 2)
  /\ \E b \in Blocks : \E w \in Warps(kern.block) :
        /\ wpc[b][w] = "store"
        /\ \E w2 \in Warps(kern.block) : wpc[b][w2] = "exit" /\ StoreLanes(w2, 0) = {}

\* ---- the scratch buffer ----

\* the kernel reads or writes the scratch buffer
TouchesBuffer(k) == k.fin = "block" \/ k.kind = "operator"

\* the writes of buffer word i so far
Writers(i) == {e \in BagToSet(bufWrites) : e.word = i}

WrittenOnce(i) ==
  /\ Cardinality(Writers(i)) = 1
  /\ \A e \in Writers(i) : CopiesIn(e, bufWrites) = 1

\* the value words of the slot of block b in the buffer
SlotWordsOf(b) == {b * SlotWords + k : k \in 0 .. (WordCount - 1)}

\* C14: while the kernel of phase 2 runs, the kernel of phase 1 was launched
\* before it and is neither queued nor running; when that launch was accepted,
\* every block of phase 1 has written every word of its slot.
C14_PhaseTwoAfterPhaseOne ==
  kern.kind = "operator" =>
     /\ Len(launches) = 2
     /\ \A k \in Issued : k.kind # "functor"
     /\ launches[1] =>
          \A b \in 0 .. (block_count - 1) : \A i \in SlotWordsOf(b) : WrittenOnce(i)

C14_Witness ==
  /\ kern.kind = "operator"
  /\ launches[1]
  /\ block_count = MaxBlocks
  /\ \E w \in Warps(kern.block) : wpc[0][w] # "entry"

PhaseOneOver ==
  /\ ~ SinglePath
  /\ launches # << >>
  /\ launches[1]
  /\ \A k \in Issued : k.kind # "functor"

\* C16: every write to the buffer is made by the kernel of phase 1 (the
\* kernel of phase 2 only reads), by a block into a value word of the slot
\* with the block's own index; no word is written twice or by two lanes, and
\* when phase 1 is over each value word of each block's slot was written once.
C16_BufferWrites ==
  /\ \A e \in BagToSet(bufWrites) :
        /\ e.kind = "functor"
        /\ e.word \in SlotWordsOf(e.block)
        /\ WrittenOnce(e.word)
  /\ PhaseOneOver =>
        \A b \in 0 .. (block_count - 1) : \A i \in SlotWordsOf(b) : WrittenOnce(i)

C16_Witness ==
  /\ PhaseOneOver
  /\ kern.kind = "operator"
  /\ block_count = MaxBlocks + 1
  /\ WordCount > max_thread_count
  /\ \A b \in 0 .. (block_count - 1) : \A i \in SlotWordsOf(b) : WrittenOnce(i)

\* warp w of block b can execute an iteration of the store loop of the block
\* finalize now, with a lane that has a word to store
StoreEnabled(b, w) ==
  /\ kern.fin = "block"
  /\ \/ wpc[b][w] = "loop" /\ wj[b][w] = 0 /\ ~ NeedsStoreBarrier
     \/ wpc[b][w] = "store"
  /\ StoreLanes(w, wk[b][w]) # {}

\* C17: a warp stores words of slot 0 only when lane 0 has made the last join
\* of the tree, and when the block finalize is over in a block, every value
\* word of the block's slot in the buffer equals that word of slot 0, for
\* every lane count and word count.
C17_StoreFinalizeCopiesSlot0 ==
  \A b \in Blocks :
     /\ \A w \in Warps(kern.block) :
           StoreEnabled(b, w) => (wj[b][0] = 0 /\ wpc[b][0] \in {"loop", "store", "exit"})
     /\ (kern.fin = "block" /\ Finished(b) /\ scratch = "live") =>
           /\ \A k \in 0 .. (WordCount - 1) : block_value[b * SlotWords + k] = shared[b][k]
           /\ SlotValue(block_value, b) = SlotValue(shared[b], 0)

C17_Witness ==
  /\ kern.fin = "block"
  /\ scratch = "live"
  /\ WarpSize < kern.block
  /\ kern.block < WordCount
  /\ \E b \in Blocks :
        /\ Finished(b)
        /\ SlotValue(block_value, b) = SlotValue(shared[b], 0)
        /\ ~ Indeterminate(SlotValue(block_value, b))
        /\ SlotValue(block_value, b) # Identity

\* ---- the copy of the buffer into shared memory ----

\* the lane of the block that copies word i, and the iteration it does so in
CopierOf(i) == i % kern.block

\* word i of shared memory has been copied from the buffer
Copied(i) ==
  LET w2 == CopierOf(i) \div WarpSize IN
    wpc[0][w2] # "entry" \/ wk[0][w2] > i \div kern.block

\* all value words of slot s have been copied
SlotCopied(s) == \A k \in 0 .. (WordCount - 1) : Copied(s * SlotWords + k)

\* C18: in the kernel of phase 2 every word of the slots is copied from the
\* buffer (a copied word of a slot no join writes holds the buffer's word),
\* and no warp can execute a join that reads a slot, its lane's own or the
\* one j slots further, of which a word is yet to be copied (in a call whose
\* launches were all accepted).
C18_CopyBeforeCombine ==
  (kern.kind = "operator" /\ ~ LaunchError) =>
     /\ \A i \in 0 .. (CopyCount(kern.block) - 1) :
           (Copied(i) /\ i \div SlotWords >= kern.block \div 2) => shared[0][i] = BufRead(i)
     /\ (\A w \in Warps(kern.block) : wpc[0][w] # "entry") =>
           \A i \in 0 .. (CopyCount(kern.block) - 1) : Copied(i)
     /\ \A w \in Warps(kern.block) :
           JoinEnabled(0, w) =>
             \A l \in LanesOf(w, kern.block) :
                l < NextStep(0, w) => (SlotCopied(l) /\ SlotCopied(l + NextStep(0, w)))

\* ---- the launch planner ----

\* n is what n0 becomes when it is halved as long as it is in the set more:
\* n is n0 halved some number of times, every value before n was in more
\* and n is not
HalvedWhile(n, n0, more) ==
  \E h \in 0 .. n0 :
     /\ n = n0 \div (2 ^ h)
     /\ n \notin more
     /\ \A g \in 0 .. (h - 1) : (n0 \div (2 ^ g)) \in more

C20_MultiPathShape ==
  ~ SinglePath =>
     LET phase1 == [kind |-> "functor", grid |-> block_count,
                    block |-> max_thread_count, fin |-> "block"]
         phase2 == [kind |-> "operator", grid |-> 1, block |-> block_count,
                    fin |-> "functor"]
         least == IF block_count_max < max_thread_count THEN block_count_max
                                                         ELSE max_thread_count
     IN /\ Len(launches) <= 2
        /\ pc \in {"dealloc", "done"} <=> Len(launches) = 2
        /\ pc = "launch2" <=> Len(launches) = 1
        /\ Issued \subseteq {phase1, phase2}
        /\ \A i \in 1 .. Len(stream) : stream[i] = phase1 => i = 1
        /\ kern = phase2 => stream = << >>
        /\ (kern = phase1 /\ stream # << >>) => stream = << phase2 >>
        /\ pc \in {"alloc", "launch1", "launch2", "dealloc", "done"} =>
              /\ HalvedWhile(block_count, least,
                              {n \in 0 .. least : work_count <= max_thread_count * (n \div 2)})
              /\ 1 <= block_count
              /\ block_count <= max_thread_count
        /\ kern = phase2 => DOMAIN shared[0] = 0 .. (SlotWords * block_count - 1)

C20_Witness ==
  /\ ~ SinglePath
  /\ pc = "dealloc"
  /\ launches = << TRUE, TRUE >>
  /\ block_count_max = MaxBlocks
  /\ max_thread_count >= MaxBlocks
  /\ block_count < block_count_max
  /\ kern.kind = "operator"

\* ---- slots touched by one step of the tree ----

\* the words of slot s of a block's shared array
SharedWordsOf(s) == {s * SlotWords + k : k \in 0 .. (SlotWords - 1)}

\* the slots the lanes of the block write, and the slots they read from
\* other lanes, in the step j of the tree
StepWrites(j) == UNION {JoinLanes(w, j) : w \in Warps(kern.block)}

StepReads(j) == {JoinSlot(l, j) : l \in StepWrites(j)}

\* C22: in every step j of the tree of a block of L lanes every lane i < j
\* reads slot i + j with i + j < L, inside the L slots of the block's shared
\* array, and the slots written in the step (below j) are disjoint from the
\* slots read from other lanes (from j on).
C22_TreeSlotsInBounds ==
  kern # NoKernel =>
    \A b \in Blocks : \A w \in Warps(kern.block) :
       JoinEnabled(b, w) =>
         LET j == NextStep(b, w) IN
           /\ \A l \in JoinLanes(w, j) :
                 /\ l < j
                 /\ JoinSlot(l, j) < kern.block
                 /\ SharedWordsOf(JoinSlot(l, j)) \subseteq DOMAIN shared[b]
           /\ StepWrites(j) \cap StepReads(j) = {}
           /\ \A s \in StepWrites(j) : s < j
           /\ \A s \in StepReads(j) : j <= s /\ s < kern.block

\* a warp of a block whose lane count is no power of two is about to join
\* at a step of two or more lanes, with all its lanes reading another
\* warp's slots
C22_Witness ==
  /\ kern # NoKernel
  /\ kern.block \notin {1, 2, 4, 8}
  /\ \E b \in Blocks : \E w \in Warps(kern.block) :
        /\ JoinEnabled(b, w)
        /\ NextStep(b, w) >= 2
        /\ JoinLanes(w, NextStep(b, w)) = LanesOf(w, kern.block)
        /\ \A l \in JoinLanes(w, NextStep(b, w)) :
              (JoinSlot(l, NextStep(b, w)) \div WarpSize) # w

\* ---- lanes and work on the single-block path ----

\* the lanes of the running block with an iteration k of the grid-stride loop
LanesWithWork(k) == UNION {WorkLanes(0, w, k) : w \in Warps(kern.block)}

\* C25: on the single-block path with work_count >= 1 the lane count of the
\* launch satisfies lanes / 2 < work_count <= lanes, so no lane has a second
\* iteration of the grid-stride loop and more than half of the lanes have
\* a first one.
C25_SinglePathLaneCount ==
  (SinglePath /\ work_count >= 1) =>
     /\ pc = "done" =>
           /\ thread_count \div 2 < work_count
           /\ thread_count < 2 * work_count
           /\ work_count <= thread_count
     /\ \A k \in Issued :
           /\ k.block = thread_count
           /\ k.block < 2 * work_count
           /\ work_count <= k.block
     /\ kern # NoKernel =>
           /\ \A w \in Warps(kern.block) : wk[0][w] = 0
           /\ LanesWithWork(1) = {}
           /\ Cardinality(LanesWithWork(0)) = work_count
           /\ kern.block < 2 * Cardinality(LanesWithWork(0))

\* the launch of a halved lane count, not a power of two, has run its
\* grid-stride loops with some lanes idle
C25_Witness ==
  /\ SinglePath
  /\ work_count >= 2
  /\ pc = "done"
  /\ kern # NoKernel
  /\ kern.block < max_thread_count
  /\ work_count < kern.block
  /\ WorkLoopsOver
  /\ BagCardinality(visited) = work_count

\* ---- SpmdVectorBase::applyOpImplWithComm ----

\* a call of applyOpImplWithComm has returned (not thrown)
Returned == apc = "idle" /\ lastExit = "return"

\* the process has no local element in the requested sub-vector: it holds
\* no element at all, or the overlap was computed and there is none
NoLocalOverlap == localSubDim_ = 0 \/ overlap.first_local_ele_off < 0

\* the views of both arrays
AllViews == {sub_vecs[k] : k \in DOMAIN sub_vecs} \cup {sub_targ_vecs[k] : k \in DOMAIN sub_targ_vecs}

\* C23: applyOpImplWithComm calls SPMD_apply_op exactly once per call, on a
\* process with local elements in the requested sub-vector as on one with
\* none (overlap_first_local_ele_off < 0 or localSubDim_ = 0): never twice,
\* not before the views are acquired, and a call that returns has made it.
C23_ApplyOpOncePerCall ==
  /\ Len(applied) <= 1
  /\ apc \in {"entry", "overlap", "acquire", "apply"} => applied = << >>
  /\ apc \in {"release", "leave"} => Len(applied) = 1
  /\ Returned => Len(applied) = 1

\* a process that holds elements, none of them in the requested sub-vector,
\* has returned from its second call
C23_Witness ==
  /\ Returned
  /\ callCount = 2
  /\ localSubDim_ > 0
  /\ overlap.first_local_ele_off < 0
  /\ Len(applied) = 1

\* C24: every view acquired before the operator is applied is released
\* (committed) exactly once after it was applied, with its global offset
\* back at the lower bound of the range it was acquired with, so that the
\* release takes the branch (local or default) the acquisition took; without
\* local overlap no view is acquired and none released.
C24_ViewsReleasedAsAcquired ==
  /\ \A v \in AllViews :
        /\ v.acquired <= 1
        /\ v.released <= v.acquired
        /\ v.st = "null" <=> v.acquired = 0
        /\ v.st = "freed" <=> v.released = 1
        /\ v.acquired = 1 /\ applied = << >> => apc \in {"acquire", "apply", "idle"}
        /\ v.released = 1 => Len(applied) = 1
        /\ v.st = "freed" => v.globalOffset = local_rng.lbound /\ v.freedVia = v.via
        /\ Returned => v.released = v.acquired
  /\ (apc \in {"apply", "release", "leave"} \/ Returned) =>
        ((\E v \in AllViews : v.acquired = 1) => \A v \in AllViews : v.acquired = 1)
  /\ ((apc \in {"acquire", "apply", "release", "leave"} \/ Returned) /\ NoLocalOverlap) =>
        \A v \in AllViews : v.acquired = 0 /\ v.released = 0

\* C26: in_applyOpImpl_ is false after construction and after every exit of
\* applyOpImplWithComm, also an exit by an exception of a callee, and true
\* while a call is past its entry; no call is reported as recursive (there
\* is no recursive call: the calls follow one another).
C26_FlagFalseOutsideCall ==
  /\ apc = "idle" => in_applyOpImpl_ = FALSE
  /\ apc \in {"overlap", "acquire", "apply", "release", "leave"} => in_applyOpImpl_ = TRUE
  /\ ~ reportedRecursive

\* ---- termination ----

\* C21: every call of cuda_parallel_reduce ends, for every work_count >= 0
\* and every device limit >= 1: both halving loops stop, the tree loop of
\* every warp stops and the host reaches its return (or leaves through the
\* allocation failure).
C21_CallTerminates == (pc = "call") ~> (pc \in {"done", "aborted"})

TypeOK ==
  /\ pc \in {"call", "shrinkT", "shrinkB", "alloc", "launch1", "launch2", "dealloc",
             "done", "aborted", "layout", "laid"}
  /\ scratch \in {"none", "live", "freed", "corrupt"}
  /\ Len(stream) <= 2
  /\ \A b \in Blocks : \A w \in Warps(kern.block) :
        wpc[b][w] \in {"entry", "work", "loop", "bar", "join", "fbar", "store", "exit"}

====
